---- MODULE Spec2Model ----
(***************************************************************************)
(* State-machine model of the two search engines of the repository:        *)
(*   - DepthLimitedDFS.search and IterativeDeepening.search                *)
(*     (m3project_UninformedSearch.py), and                                *)
(*   - Astar.search with its binary-heap frontier                          *)
(*     (m3project-InformedSearch.py),                                      *)
(* both run on the FourDominoes puzzle (grid of 4-sided tiles, one action  *)
(* swaps two grid cells); the uninformed engines are also run on a Problem *)
(* over small explicit graphs (SpecGraph).                                 *)
(*                                                                         *)
(* A puzzle state is the row-major sequence of the tiles in the grid.  A   *)
(* tile is named by its identity (Domino defines neither __eq__ nor        *)
(* __hash__, so Python compares tiles by object identity); the four side   *)
(* values of every tile are kept in the function `tiles`.                  *)
(***************************************************************************)
EXTENDS Integers, Sequences, FiniteSets, TLC

\* Grid size of the modelled instances (smallest size the driver runs).
N == 2

\* The iterative-deepening ceiling (max_limit) and expansion budget.
max_limit == 3
limit_states == 50000

\* Largest limit of a direct DepthLimitedDFS.search call in the model
\* (direct calls use limits -1..MaxDirectLimit).
MaxDirectLimit == 2

\* Start states are arrangements at most MaxShuffle swaps away from the
\* arrangement <<1, .., N*N>>.
MaxShuffle == 3

\* One deep direct call DepthLimitedDFS.search(state, DeepLimit) is made on
\* the unsolvable instance; 5 is the smallest limit at which a 2x2 search
\* runs long enough to meet a state of an abandoned branch again.
DeepLimit == 5

\* Number of children of the inner nodes of WideGraph: the smallest for which
\* the calls with limits 0, 1 and 2 expand limit_states states or more
\* (1 + (1 + 223) + (1 + 223 + 223 * 223) = 50178).
FanOut == 223

VARIABLES
    engine,                 \* "ids" | "dls" | "astar": which search is run
    shape,                  \* shape of the Problem ("FourDominoes", "Graph",
                            \* and for A* see ProblemShapes)
    tiles,                  \* tile identity -> [top, right, bottom, left]
    graph,                  \* shape "Graph" only: the Problem's graph
    start,                  \* the start state handed to search()
    pc,                     \* position of the running search
    limit,                  \* DepthLimitedDFS.search: argument limit
    states_to_expand,       \* DFS: stack; A*: heap array of the PriorityQueue
    path,                   \* DFS: states from the start to the current state
    solution,               \* DFS: actions from the start to the current state
    visited_states,         \* DFS: states on the path; A*: expanded states
    num_expanded_states,    \* expansions of the running (depth-limited/A*) call
    dls_ret,                \* value returned by the last DepthLimitedDFS.search
    total_expanded_states,  \* IterativeDeepening.search local
    last_expanded_states,   \* IterativeDeepening.search local
    ids_limit,              \* IterativeDeepening.search local `limit`
    num_successor_states,   \* IterativeDeepening.search local list
    expanded_states,        \* A*: list of (parent, action), one per expansion
    ret,                    \* value returned by the top-level search
    hist                    \* history: what the run did (for the properties)

vars == <<engine, shape, tiles, graph, start, pc, limit, states_to_expand, path,
          solution, visited_states, num_expanded_states, dls_ret,
          total_expanded_states, last_expanded_states, ids_limit,
          num_successor_states, expanded_states, ret, hist>>

----------------------------------------------------------------------------
(* Domino and the FourDominoes puzzle *)

Cells == 1..(N * N)

\* Python's None in an action slot (the root entry's action).
NoAction == <<>>

Domino(top, right, bottom, left) ==
    [top |-> top, right |-> right, bottom |-> bottom, left |-> left]

is_under(self, other) == self.top = other.bottom

is_on_the_right_of(self, other) == self.left = other.right

\* state[i][j] of the source: the tile identity at row i, column j (0-based).
At(state, i, j) == state[i * N + j + 1]

goal_test(ts, state) ==
    \A i \in 0..(N - 1) : \A j \in 0..(N - 1) :
        /\ (i > 0 => is_under(ts[At(state, i, j)], ts[At(state, i - 1, j)]))
        /\ (j > 0 => is_on_the_right_of(ts[At(state, i, j)], ts[At(state, i, j - 1)]))

\* FourDominoes.move applied to a copy holding `state`: swap two cells.
\* An action is ((r1,c1),(r2,c2)).
move(state, action) ==
    LET p == action[1][1] * N + action[1][2] + 1
        q == action[2][1] * N + action[2][2] + 1
    IN  [k \in 1..Len(state) |->
            IF k = p THEN state[q] ELSE IF k = q THEN state[p] ELSE state[k]]

\* The actions in the order of the two nested loops of successor():
\* i in range(N*N), j in range(i+1, N*N).
RECURSIVE ActionsFrom(_, _)
ActionsFrom(i, j) ==
    IF i >= N * N THEN <<>>
    ELSE IF j >= N * N THEN ActionsFrom(i + 1, i + 2)
    ELSE <<  << <<i \div N, i % N>>, <<j \div N, j % N>> >>  >>
         \o ActionsFrom(i, j + 1)

AllActions == ActionsFrom(0, 1)

\* FourDominoes.successor of the uninformed module: list of (action, state).
successor(state) ==
    [k \in 1..Len(AllActions) |->
        [action |-> AllActions[k], state |-> move(state, AllActions[k])]]

\* States reachable from s by any number of actions.
RECURSIVE ReachFrom(_, _)
ReachFrom(seen, frontier) ==
    IF frontier = {} THEN seen
    ELSE LET next == {move(s, AllActions[k]) :
                        s \in frontier, k \in 1..Len(AllActions)} \ seen
         IN  ReachFrom(seen \cup next, next)

Reachable(s) == ReachFrom({s}, {s})

GoalReachable(ts, s) == \E g \in Reachable(s) : goal_test(ts, g)

\* Arrangements at most k swaps away from s.
RECURSIVE Within(_, _)
Within(S, k) ==
    IF k = 0 THEN S
    ELSE Within(S \cup {move(s, AllActions[a]) :
                          s \in S, a \in 1..Len(AllActions)}, k - 1)

Ident == [k \in Cells |-> k]

StartStates == Within({Ident}, MaxShuffle)

\* The tile sets of the modelled instances (N = 2).
\*  "unique":   built as __get_random_state builds a grid, all free values
\*              different: <<1,2,3,4>> is the only goal arrangement
\*  "twins":    tiles 1 and 2 carry the same four values
\*  "uniform":  every tile is (1,1,1,1): every arrangement is a goal
\*  "unsolvable": no arrangement satisfies the adjacency predicate
TileSet(name) ==
    CASE name = "unique" ->
            <<Domino(11, 1, 2, 12), Domino(13, 14, 3, 1),
              Domino(2, 4, 15, 16), Domino(3, 17, 18, 4)>>
      [] name = "twins" ->
            <<Domino(5, 6, 7, 6), Domino(5, 6, 7, 6),
              Domino(7, 8, 21, 22), Domino(7, 23, 24, 8)>>
      [] name = "uniform" ->
            <<Domino(1, 1, 1, 1), Domino(1, 1, 1, 1),
              Domino(1, 1, 1, 1), Domino(1, 1, 1, 1)>>
      [] name = "unsolvable" ->
            <<Domino(1, 1, 2, 2), Domino(1, 1, 2, 2),
              Domino(1, 1, 2, 2), Domino(1, 1, 2, 2)>>

TileSetNames == {"unique", "twins", "uniform", "unsolvable"}

----------------------------------------------------------------------------
(* A Problem over an explicit graph *)

\* DepthLimitedDFS and IterativeDeepening are written against the abstract
\* methods successor() and goal_test() of Problem.  Shape "Graph" is a
\* subclass whose states are the nodes of a directed graph: successor(s)
\* yields ((s, c), c) for the children c of s in the listed order, and
\* goal_test(s) is membership in the goal set.  Node k is the state <<k>>.
GraphProblem(edges, goals) == [edges |-> edges, goals |-> goals]

NoGraph == GraphProblem(<<>>, {})

\* The graphs of the modelled instances; the start state is node 1.
\*  "tree":    1 -> 2, 3;  2 -> 4;  3 -> 5          (goal 5 at depth 2)
\*  "merge":   1 -> 2, 3;  2 -> 5;  3 -> 2          (goal 5 at depth 2 via 2)
\*  "merge4":  as "merge" with the further edge 3 -> 4
\*  "cycle":   1 -> 2;  2 -> 1, 3;  3 -> 2, 5       (goal 5 at depth 3)
\*  "barren":  1 -> 2, 3;  2 -> 3;  3 -> 2          (no goal)
\*  "chain":   1 -> 2;  2 -> 3;  3 -> 4;  4 -> 5    (goal 5 at depth 4)
Graph(name) ==
    CASE name = "tree" ->
            GraphProblem(<< <<2, 3>>, <<4>>, <<5>>, <<>>, <<>> >>, {5})
      [] name = "merge" ->
            GraphProblem(<< <<2, 3>>, <<5>>, <<2>>, <<>>, <<>> >>, {5})
      [] name = "merge4" ->
            GraphProblem(<< <<2, 3>>, <<5>>, <<2, 4>>, <<>>, <<>> >>, {5})
      [] name = "cycle" ->
            GraphProblem(<< <<2>>, <<1, 3>>, <<2, 5>>, <<>>, <<>> >>, {5})
      [] name = "barren" ->
            GraphProblem(<< <<2, 3>>, <<3>>, <<2>>, <<>>, <<>> >>, {})
      [] name = "chain" ->
            GraphProblem(<< <<2>>, <<3>>, <<4>>, <<5>>, <<>> >>, {5})

\* A graph wide enough for the driver to use up its expansion budget before
\* the maximum limit: node 1 has FanOut children, 2 and 3 in turn, and nodes
\* 2 and 3 have FanOut children each, 4 and 5 in turn; there is no goal.
WideGraph ==
    GraphProblem(<< [k \in 1..FanOut |-> 2 + (k % 2)],
                    [k \in 1..FanOut |-> 4 + (k % 2)],
                    [k \in 1..FanOut |-> 4 + (k % 2)],
                    <<>>, <<>> >>, {})

GraphNames == {"tree", "merge", "merge4", "cycle", "barren", "chain"}

GraphStart == <<1>>

\* successor() of the graph Problem.
graph_successor(gr, state) ==
    [k \in 1..Len(gr.edges[state[1]]) |->
        [action |-> <<state, <<gr.edges[state[1]][k]>>>>,
         state |-> <<gr.edges[state[1]][k]>>]]

\* goal_test() of the graph Problem.
graph_goal_test(gr, state) == state[1] \in gr.goals

\* self.successor(state) and self.goal_test(state) of the running Problem.
self_successor(sh, gr, state) ==
    IF sh = "Graph" THEN graph_successor(gr, state) ELSE successor(state)

self_goal_test(sh, ts, gr, state) ==
    IF sh = "Graph" THEN graph_goal_test(gr, state) ELSE goal_test(ts, state)

----------------------------------------------------------------------------
(* Returned values *)

\* (None, n) and (actions, n); `cost` is used by A* only.
NotReturned == [returned |-> FALSE, none |-> TRUE, actions |-> <<>>,
                cost |-> 0, expanded |-> 0]

Return(actions, cost, expanded) ==
    [returned |-> TRUE, none |-> FALSE, actions |-> actions,
     cost |-> cost, expanded |-> expanded]

ReturnNone(cost, expanded) ==
    [returned |-> TRUE, none |-> TRUE, actions |-> <<>>,
     cost |-> cost, expanded |-> expanded]

Tail1_keep(s) == s

\* All but the first element (solution[1:]).
Tail1(s) == IF Len(s) = 0 THEN <<>> ELSE Tail(s)

RECURSIVE SumSeq(_)
SumSeq(s) == IF Len(s) = 0 THEN 0 ELSE Head(s) + SumSeq(Tail(s))

----------------------------------------------------------------------------
(* DepthLimitedDFS.search *)

Entry(state, depth, action) == [state |-> state, depth |-> depth, action |-> action]

\* Lines 48-53: the locals of a fresh call search(state, limit).
DLSBegin(state, lim) ==
    /\ limit' = lim
    /\ states_to_expand' = <<Entry(state, 0, NoAction)>>
    /\ path' = <<>>
    /\ solution' = <<>>
    /\ visited_states' = {}
    /\ num_expanded_states' = 0

Top == states_to_expand[Len(states_to_expand)]

Popped == SubSeq(states_to_expand, 1, Len(states_to_expand) - 1)

Ignored_nolimit(e) == e.state \in visited_states

\* Line 57: the popped entry is ignored.
Ignored(e) == e.state \in visited_states \/ e.depth > limit

Pops_short(d) == IF Len(solution) > d + 1 THEN Len(solution) - d - 1 ELSE 0

\* Lines 60-62: number of pops of the clean-up loop for an entry of depth d.
Pops(d) == IF Len(solution) > d THEN Len(solution) - d ELSE 0

TrimmedSolution(d) == SubSeq(solution, 1, Len(solution) - Pops(d))

TrimmedPath(d) == SubSeq(path, 1, Len(path) - Pops(d))

TrimmedVisited(d) ==
    visited_states \ {path[k] : k \in (Len(path) - Pops(d) + 1)..Len(path)}

\* Lines 72-74: the stack after the children of `state` were appended.
PushChildren(stack, state, depth) ==
    stack \o [k \in 1..Len(self_successor(shape, graph, state)) |->
                Entry(self_successor(shape, graph, state)[k].state, depth + 1,
                      self_successor(shape, graph, state)[k].action)]

\* Where control goes when the depth-limited call returns.
AfterDLS == IF engine = "ids" THEN "ids_after" ELSE "done"

DriverUnchanged ==
    UNCHANGED <<engine, shape, tiles, graph, start, total_expanded_states,
                last_expanded_states, ids_limit, num_successor_states,
                expanded_states>>

\* One iteration of the while loop that takes the `continue` of line 58.
DFSDiscard ==
    /\ pc = "dfs"
    /\ Len(states_to_expand) > 0
    /\ Ignored(Top)
    /\ states_to_expand' = Popped
    /\ hist' = [hist EXCEPT !.discards = @ + 1]
    /\ UNCHANGED <<pc, limit, path, solution, visited_states,
                   num_expanded_states, dls_ret, ret>>
    /\ DriverUnchanged

\* One iteration that accepts a non-goal state and pushes its children.
DFSExpand ==
    /\ pc = "dfs"
    /\ Len(states_to_expand) > 0
    /\ ~Ignored(Top)
    /\ ~self_goal_test(shape, tiles, graph, Top.state)
    /\ num_expanded_states' = num_expanded_states + 1
    /\ visited_states' = TrimmedVisited(Top.depth) \cup {Top.state}
    /\ solution' = Append(TrimmedSolution(Top.depth), Top.action)
    /\ path' = Append(TrimmedPath(Top.depth), Top.state)
    /\ states_to_expand' = PushChildren(Popped, Top.state, Top.depth)
    /\ UNCHANGED <<pc, limit, dls_ret, ret, hist>>
    /\ DriverUnchanged

\* One iteration that accepts a goal state: return solution[1:], count.
DFSGoal ==
    /\ pc = "dfs"
    /\ Len(states_to_expand) > 0
    /\ ~Ignored(Top)
    /\ self_goal_test(shape, tiles, graph, Top.state)
    /\ num_expanded_states' = num_expanded_states + 1
    /\ visited_states' = TrimmedVisited(Top.depth) \cup {Top.state}
    /\ solution' = Append(TrimmedSolution(Top.depth), Top.action)
    /\ path' = Append(TrimmedPath(Top.depth), Top.state)
    /\ states_to_expand' = Popped
    /\ dls_ret' = Return(Tail1(solution'), 0, num_expanded_states')
    /\ pc' = AfterDLS
    /\ ret' = IF engine = "dls" THEN dls_ret' ELSE ret
    /\ hist' = [hist EXCEPT !.calls = Append(@, [limit |-> limit,
                                 expanded |-> num_expanded_states',
                                 none |-> FALSE])]
    /\ UNCHANGED limit
    /\ DriverUnchanged

\* Line 79: the stack is empty, return None, count.
DFSExhausted ==
    /\ pc = "dfs"
    /\ Len(states_to_expand) = 0
    /\ dls_ret' = ReturnNone(0, num_expanded_states)
    /\ pc' = AfterDLS
    /\ ret' = IF engine = "dls" THEN dls_ret' ELSE ret
    /\ hist' = [hist EXCEPT !.calls = Append(@, [limit |-> limit,
                                 expanded |-> num_expanded_states,
                                 none |-> TRUE])]
    /\ UNCHANGED <<limit, states_to_expand, path, solution, visited_states,
                   num_expanded_states>>
    /\ DriverUnchanged

----------------------------------------------------------------------------
(* IterativeDeepening.search *)

DFSLocalsUnchanged ==
    UNCHANGED <<limit, states_to_expand, path, solution, visited_states,
                num_expanded_states>>

Stagnated_ge(count, last) == count >= last

\* Line 167: the stagnation test on the count of the call just made.
Stagnated(count, last) == count = last

\* Lines 157-164: the loop test, the budget test, and the next call.
WithinBudget_unchecked(total) == TRUE

\* Line 159: the budget test lets the next call start.
WithinBudget(total) == total < limit_states

\* Lines 157-164: the loop test, the budget test and the start of a call.
IDSLoopHead ==
    /\ pc = "ids_head"
    /\ IF ids_limit <= max_limit /\ WithinBudget(total_expanded_states)
       THEN /\ DLSBegin(start, ids_limit)
            /\ pc' = "dfs"
            /\ UNCHANGED <<ret, hist>>
       ELSE /\ ret' = ReturnNone(0, total_expanded_states)
            /\ pc' = "done"
            /\ hist' = [hist EXCEPT !.exit =
                          IF ids_limit <= max_limit THEN "budget" ELSE "max_limit"]
            /\ DFSLocalsUnchanged
    /\ UNCHANGED <<engine, shape, tiles, graph, start, dls_ret, total_expanded_states,
                   last_expanded_states, ids_limit, num_successor_states,
                   expanded_states>>

\* Line 179: the limit of the next call.
NextLimit(l) == l + 1

\* Lines 167-179: what the driver does with the result of a call.
IDSAfterCall ==
    /\ pc = "ids_after"
    /\ IF Stagnated(dls_ret.expanded, last_expanded_states)
       THEN /\ ret' = ReturnNone(0, total_expanded_states)
            /\ pc' = "done"
            /\ hist' = [hist EXCEPT !.exit = "stagnation"]
            /\ UNCHANGED <<last_expanded_states, total_expanded_states,
                           num_successor_states, ids_limit>>
       ELSE /\ last_expanded_states' = dls_ret.expanded
            /\ total_expanded_states' = total_expanded_states + dls_ret.expanded
            /\ num_successor_states' =
                   Append(num_successor_states,
                          Len(self_successor(shape, graph, start)))
            /\ IF ~dls_ret.none
               THEN /\ ret' = Return(dls_ret.actions, 0, total_expanded_states')
                    /\ pc' = "done"
                    /\ hist' = [hist EXCEPT !.exit = "solution"]
                    /\ UNCHANGED ids_limit
               ELSE /\ ids_limit' = NextLimit(ids_limit)
                    /\ pc' = "ids_head"
                    /\ UNCHANGED <<ret, hist>>
    /\ DFSLocalsUnchanged
    /\ UNCHANGED <<engine, shape, tiles, graph, start, dls_ret, expanded_states>>

----------------------------------------------------------------------------
(* The uninformed searches as one specification *)

NoHist == [exit |-> "", calls |-> <<>>, discards |-> 0, order |-> <<>>,
           error |-> ""]

\* The limits of the direct calls made on an instance.
DirectLimits(ts, s) ==
    ((-1)..MaxDirectLimit) \cup
    (IF ts = TileSet("unsolvable") /\ s = Ident THEN {DeepLimit} ELSE {})

InitIDS ==
    /\ engine \in {"ids", "dls"}
    /\ shape = "FourDominoes"
    /\ \E name \in TileSetNames : tiles = TileSet(name)
    /\ graph = NoGraph
    /\ start \in StartStates
    /\ limit \in (IF engine = "dls" THEN DirectLimits(tiles, start) ELSE {0})
    /\ pc = IF engine = "dls" THEN "dfs" ELSE "ids_head"
    /\ states_to_expand =
           IF engine = "dls" THEN <<Entry(start, 0, NoAction)>> ELSE <<>>
    /\ path = <<>>
    /\ solution = <<>>
    /\ visited_states = {}
    /\ num_expanded_states = 0
    /\ dls_ret = NotReturned
    /\ total_expanded_states = 0
    /\ last_expanded_states = -1
    /\ ids_limit = 0
    /\ num_successor_states = <<>>
    /\ expanded_states = <<>>
    /\ ret = NotReturned
    /\ hist = NoHist

NextIDS ==
    \/ DFSDiscard
    \/ DFSExpand
    \/ DFSGoal
    \/ DFSExhausted
    \/ IDSLoopHead
    \/ IDSAfterCall

SpecIDS == InitIDS /\ [][NextIDS]_vars

\* The same two searches run by a graph Problem from node 1.
InitGraph ==
    /\ engine \in {"ids", "dls"}
    /\ shape = "Graph"
    /\ tiles = <<>>
    /\ \E name \in GraphNames : graph = Graph(name)
    /\ start = GraphStart
    /\ limit \in (IF engine = "dls" THEN (-1)..MaxDirectLimit ELSE {0})
    /\ pc = IF engine = "dls" THEN "dfs" ELSE "ids_head"
    /\ states_to_expand =
           IF engine = "dls" THEN <<Entry(start, 0, NoAction)>> ELSE <<>>
    /\ path = <<>>
    /\ solution = <<>>
    /\ visited_states = {}
    /\ num_expanded_states = 0
    /\ dls_ret = NotReturned
    /\ total_expanded_states = 0
    /\ last_expanded_states = -1
    /\ ids_limit = 0
    /\ num_successor_states = <<>>
    /\ expanded_states = <<>>
    /\ ret = NotReturned
    /\ hist = NoHist

SpecGraph == InitGraph /\ [][NextIDS]_vars

\* IterativeDeepening.search run by the graph Problem of WideGraph.
InitWide ==
    /\ engine = "ids"
    /\ shape = "Graph"
    /\ tiles = <<>>
    /\ graph = WideGraph
    /\ start = GraphStart
    /\ limit = 0
    /\ pc = "ids_head"
    /\ states_to_expand = <<>>
    /\ path = <<>>
    /\ solution = <<>>
    /\ visited_states = {}
    /\ num_expanded_states = 0
    /\ dls_ret = NotReturned
    /\ total_expanded_states = 0
    /\ last_expanded_states = -1
    /\ ids_limit = 0
    /\ num_successor_states = <<>>
    /\ expanded_states = <<>>
    /\ ret = NotReturned
    /\ hist = NoHist

\* The counts of the calls with limits 0, 1 and 2 on WideGraph.
WideCounts == <<1, 1 + FanOut, 1 + FanOut + FanOut * FanOut>>

\* The state in which the run from InitWide reaches the loop head for the
\* fourth time (ids_limit = 3), after the 2 * (1 + FanOut + FanOut * FanOut)
\* iterations of its three calls.  It is a state of that run, not a new
\* input: starting from it as well keeps the behaviours that lead to the
\* budget test short.
InitWideAtBudget ==
    /\ engine = "ids"
    /\ shape = "Graph"
    /\ tiles = <<>>
    /\ graph = WideGraph
    /\ start = GraphStart
    /\ limit = 2
    /\ pc = "ids_head"
    /\ states_to_expand = <<>>
    /\ path = << <<1>>, <<3>>, <<5>> >>
    /\ solution = << NoAction, << <<1>>, <<3>> >>, << <<3>>, <<5>> >> >>
    /\ visited_states = { <<1>>, <<3>>, <<5>> }
    /\ num_expanded_states = WideCounts[3]
    /\ dls_ret = ReturnNone(0, WideCounts[3])
    /\ total_expanded_states = SumSeq(WideCounts)
    /\ last_expanded_states = WideCounts[3]
    /\ ids_limit = 3
    /\ num_successor_states = <<FanOut, FanOut, FanOut>>
    /\ expanded_states = <<>>
    /\ ret = NotReturned
    /\ hist = [NoHist EXCEPT
                 !.calls = [i \in 1..3 |-> [limit |-> i - 1,
                                            expanded |-> WideCounts[i],
                                            none |-> TRUE]],
                 !.discards = FanOut + FanOut * FanOut]

\* The driver on the puzzle instances and on the wide graph.
InitDriver == InitIDS \/ InitWide \/ InitWideAtBudget

SpecDriver == InitDriver /\ [][NextIDS]_vars

----------------------------------------------------------------------------
(* Astar.search: the Problem shapes *)

\* What the engine is run on.  The state graph is the puzzle's in all shapes.
\*  "FourDominoes": the informed module's class as written.  Its successor()
\*       evaluates copy.heuristicfunction on a copy built from a state, which
\*       has no goal_state attribute.
\*  "Pairs": successor() returns (action, state) pairs, as its docstring says.
\*  "Quads": successor() returns 4-tuples (action, state, act_cost,
\*       heur_cost), the shape the loop of line 103 unpacks; tiles are Domino
\*       objects (no ordering defined).
\*  "QuadsOrdered": as "Quads", with tiles that define an order (by identity
\*       number), so that two states can be compared with <.
ProblemShapes == {"FourDominoes", "Pairs", "Quads", "QuadsOrdered"}

\* math.inf, the priority of the root entry.
inf == 1000000

\* self.goal_state: the grid in creation order (before the shuffle).
goal_state == Ident

RECURSIVE CountMismatch(_, _)
CountMismatch(state, k) ==
    IF k = 0 THEN 0
    ELSE CountMismatch(state, k - 1) + (IF state[k] # goal_state[k] THEN 1 ELSE 0)

heuristicfunction(state) == CountMismatch(state, N * N)

----------------------------------------------------------------------------
(* The PriorityQueue: heapq on a list of tuples *)

EntryA(f, g, state, parent, action) ==
    [f |-> f, g |-> g, state |-> state, parent |-> parent, action |-> action]

\* Lexicographic < on two sequences of integers of the same length.
RECURSIVE SeqLess(_, _)
SeqLess(a, b) ==
    IF Len(a) = 0 \/ Len(b) = 0 THEN Len(a) < Len(b)
    ELSE IF Head(a) # Head(b) THEN Head(a) < Head(b)
    ELSE SeqLess(Tail(a), Tail(b))

Flat(action) == <<action[1][1], action[1][2], action[2][1], action[2][2]>>

\* a < b on two frontier tuples (heur_cost, path_cost, state, parent, action):
\* Python compares the first position where the tuples differ.
\* "lt", "ge", or "err" (TypeError: '<' not supported).
Less(sh, a, b) ==
    IF a.f # b.f THEN (IF a.f < b.f THEN "lt" ELSE "ge")
    ELSE IF a.g # b.g THEN (IF a.g < b.g THEN "lt" ELSE "ge")
    ELSE IF a.state # b.state
         THEN IF sh = "QuadsOrdered"
              THEN (IF SeqLess(a.state, b.state) THEN "lt" ELSE "ge")
              ELSE "err"
    ELSE IF a.parent # b.parent THEN (IF a.parent < b.parent THEN "lt" ELSE "ge")
    ELSE IF a.action # b.action
         THEN IF a.action = NoAction \/ b.action = NoAction THEN "err"
              ELSE (IF SeqLess(Flat(a.action), Flat(b.action)) THEN "lt" ELSE "ge")
    ELSE "ge"

HeapOk(h) == [heap |-> h, err |-> FALSE]

\* A comparison raised: h is the list as the exception leaves it.  The
\* sifting loops exchange newitem with the entry it passes, so newitem sits
\* at the position reached when the comparison fails.
HeapErr(h) == [heap |-> h, err |-> TRUE]

\* heapq._siftdown(heap, startpos, pos) with newitem = heap[pos]; positions
\* are 0-based as in Python, the sequence is 1-based.
RECURSIVE SiftDown(_, _, _, _, _)
SiftDown(sh, heap, startpos, pos, newitem) ==
    IF pos > startpos
    THEN LET parentpos == (pos - 1) \div 2
             parent == heap[parentpos + 1]
             c == Less(sh, newitem, parent)
         IN  IF c = "err" THEN HeapErr([heap EXCEPT ![pos + 1] = newitem])
             ELSE IF c = "lt"
                  THEN SiftDown(sh, [heap EXCEPT ![pos + 1] = parent],
                                startpos, parentpos, newitem)
                  ELSE HeapOk([heap EXCEPT ![pos + 1] = newitem])
    ELSE HeapOk([heap EXCEPT ![pos + 1] = newitem])

\* heapq._siftup(heap, pos): bubble the smaller child up to a leaf, then
\* sift newitem down from there.
RECURSIVE SiftUp(_, _, _, _)
SiftUp(sh, heap, pos, newitem) ==
    LET endpos == Len(heap)
        childpos == 2 * pos + 1
        rightpos == childpos + 1
    IN  IF childpos < endpos
        THEN LET c == IF rightpos < endpos
                      THEN Less(sh, heap[childpos + 1], heap[rightpos + 1])
                      ELSE "lt"
                 pick == IF c = "lt" THEN childpos ELSE rightpos
             IN  IF c = "err" THEN HeapErr([heap EXCEPT ![pos + 1] = newitem])
                 ELSE SiftUp(sh, [heap EXCEPT ![pos + 1] = heap[pick + 1]],
                             pick, newitem)
        ELSE SiftDown(sh, [heap EXCEPT ![pos + 1] = newitem], 0, pos, newitem)

\* PriorityQueue.put(item): heappush.
HeapPush(sh, heap, item) ==
    SiftDown(sh, Append(heap, item), 0, Len(heap), item)

\* PriorityQueue.get(): heappop.  The popped item is heap[0].
HeapPop(sh, heap) ==
    LET lastelt == heap[Len(heap)]
        rest == SubSeq(heap, 1, Len(heap) - 1)
    IN  IF Len(rest) = 0 THEN HeapOk(rest)
        ELSE SiftUp(sh, [rest EXCEPT ![1] = lastelt], 0, lastelt)

\* Lines 103-107 for the children k..Len(AllActions) of `state`, in order.
RECURSIVE PushChildrenA(_, _, _, _, _)
PushChildrenA(sh, heap, state, parent, k) ==
    IF k > Len(AllActions) THEN HeapOk(heap)
    ELSE LET child == successor(state)[k].state
             heur_cost == heuristicfunction(child)
             path_cost == 1
             act_cost == 1
             r == HeapPush(sh, heap,
                           EntryA(heur_cost + act_cost + path_cost,
                                  act_cost + path_cost, child, parent,
                                  successor(state)[k].action))
         IN  IF r.err THEN r
             ELSE PushChildrenA(sh, r.heap, state, parent, k + 1)

RECURSIVE Reconstruct_noreverse(_, _, _)
Reconstruct_noreverse(parent, action, nodes) ==
    IF parent = -1 THEN <<>>
    ELSE <<action>> \o Reconstruct_noreverse(nodes[parent + 1].parent,
                                             nodes[parent + 1].action, nodes)

\* Lines 96-100: actions from the root to the node (parent, action).
RECURSIVE Reconstruct(_, _, _)
Reconstruct(parent, action, nodes) ==
    IF parent = -1 THEN <<>>
    ELSE Append(Reconstruct(nodes[parent + 1].parent,
                            nodes[parent + 1].action, nodes), action)

----------------------------------------------------------------------------
(* Astar.search *)

RootEntry_cost1(state) == EntryA(inf, 1, state, -1, NoAction)

\* Line 84: the entry put on the frontier for the start state.
RootEntry(state) == EntryA(inf, 0, state, -1, NoAction)

AstarFixed ==
    UNCHANGED <<engine, shape, tiles, graph, start, limit, path, solution, dls_ret,
                total_expanded_states, last_expanded_states, ids_limit,
                num_successor_states>>

\* Line 86: the entry that get() returns and the heap it leaves.
PopItem == states_to_expand[1]

PopRest == HeapPop(shape, states_to_expand)

Seen_never(e) == FALSE

\* Line 88: the popped state was expanded before.
Seen(e) == e.state \in visited_states

\* What evaluating self.successor(state) and unpacking its elements at
\* line 103 raises for the Problem shape, "" if nothing.
ExpandError(sh) ==
    CASE sh = "FourDominoes" -> "AttributeError"
      [] sh = "Pairs" -> IF Len(AllActions) > 0 THEN "ValueError" ELSE ""
      [] OTHER -> ""

Pushed_next == PushChildrenA(shape, PopRest.heap, PopItem.state,
                             num_expanded_states + 1, 1)

\* The children of the node just recorded, pushed in order.
Pushed == PushChildrenA(shape, PopRest.heap, PopItem.state,
                        num_expanded_states, 1)

\* Line 109: the frontier is empty.
AstarExhausted ==
    /\ pc = "astar"
    /\ Len(states_to_expand) = 0
    /\ ret' = ReturnNone(inf, num_expanded_states)
    /\ pc' = "done"
    /\ UNCHANGED <<states_to_expand, visited_states, num_expanded_states,
                   expanded_states, hist>>
    /\ AstarFixed

\* One iteration that takes the `continue` of line 89.
AstarDiscard ==
    /\ pc = "astar"
    /\ Len(states_to_expand) > 0
    /\ ~PopRest.err
    /\ Seen(PopItem)
    /\ states_to_expand' = PopRest.heap
    /\ hist' = [hist EXCEPT !.discards = @ + 1]
    /\ UNCHANGED <<pc, visited_states, num_expanded_states, expanded_states, ret>>
    /\ AstarFixed

\* One iteration that expands a goal state: lines 91-101.
AstarGoal ==
    /\ pc = "astar"
    /\ Len(states_to_expand) > 0
    /\ ~PopRest.err
    /\ ~Seen(PopItem)
    /\ goal_test(tiles, PopItem.state)
    /\ states_to_expand' = PopRest.heap
    /\ num_expanded_states' = num_expanded_states + 1
    /\ visited_states' = visited_states \cup {PopItem.state}
    /\ expanded_states' = Append(expanded_states,
                                 [parent |-> PopItem.parent,
                                  action |-> PopItem.action])
    /\ ret' = Return(Reconstruct(PopItem.parent, PopItem.action, expanded_states'),
                     PopItem.g, num_expanded_states')
    /\ pc' = "done"
    /\ hist' = [hist EXCEPT !.order = Append(@, PopItem.state)]
    /\ AstarFixed

\* One iteration that expands a non-goal state and pushes its children:
\* lines 91-95 and 103-107.
AstarExpand ==
    /\ pc = "astar"
    /\ Len(states_to_expand) > 0
    /\ ~PopRest.err
    /\ ~Seen(PopItem)
    /\ ~goal_test(tiles, PopItem.state)
    /\ ExpandError(shape) = ""
    /\ ~Pushed.err
    /\ num_expanded_states' = num_expanded_states + 1
    /\ visited_states' = visited_states \cup {PopItem.state}
    /\ expanded_states' = Append(expanded_states,
                                 [parent |-> PopItem.parent,
                                  action |-> PopItem.action])
    /\ states_to_expand' = Pushed.heap
    /\ hist' = [hist EXCEPT !.order = Append(@, PopItem.state)]
    /\ UNCHANGED <<pc, ret>>
    /\ AstarFixed

\* An iteration in which an exception is raised: by a comparison inside
\* get() (line 86), by successor() or the unpacking of its elements (line
\* 103), or by a comparison inside put() (line 107).  search() does not
\* return; the exception reaches the caller.
AstarRaise ==
    /\ pc = "astar"
    /\ Len(states_to_expand) > 0
    /\ \/ /\ PopRest.err
          /\ states_to_expand' = PopRest.heap
          /\ hist' = [hist EXCEPT !.error = "TypeError"]
          /\ UNCHANGED <<visited_states, num_expanded_states, expanded_states>>
       \/ /\ ~PopRest.err
          /\ ~Seen(PopItem)
          /\ ~goal_test(tiles, PopItem.state)
          /\ ExpandError(shape) # "" \/ Pushed.err
          /\ states_to_expand' = IF ExpandError(shape) # "" THEN PopRest.heap
                                  ELSE Pushed.heap
          /\ num_expanded_states' = num_expanded_states + 1
          /\ visited_states' = visited_states \cup {PopItem.state}
          /\ expanded_states' = Append(expanded_states,
                                       [parent |-> PopItem.parent,
                                        action |-> PopItem.action])
          /\ hist' = [hist EXCEPT
                        !.order = Append(@, PopItem.state),
                        !.error = IF ExpandError(shape) # ""
                                  THEN ExpandError(shape) ELSE "TypeError"]
    /\ pc' = "raised"
    /\ UNCHANGED ret
    /\ AstarFixed

InitAstar ==
    /\ engine = "astar"
    /\ shape \in ProblemShapes
    /\ \E name \in TileSetNames : tiles = TileSet(name)
    /\ graph = NoGraph
    /\ start \in StartStates
    /\ pc = "astar"
    /\ limit = 0
    /\ states_to_expand = <<RootEntry(start)>>
    /\ path = <<>>
    /\ solution = <<>>
    /\ visited_states = {}
    /\ num_expanded_states = 0
    /\ dls_ret = NotReturned
    /\ total_expanded_states = 0
    /\ last_expanded_states = -1
    /\ ids_limit = 0
    /\ num_successor_states = <<>>
    /\ expanded_states = <<>>
    /\ ret = NotReturned
    /\ hist = NoHist

NextAstar ==
    \/ AstarExhausted
    \/ AstarDiscard
    \/ AstarGoal
    \/ AstarExpand
    \/ AstarRaise

SpecAstar == InitAstar /\ [][NextAstar]_vars

----------------------------------------------------------------------------
(* Both modules as one specification *)

Init == InitIDS \/ InitAstar

Next == NextIDS \/ NextAstar

Spec == Init /\ [][Next]_vars

----------------------------------------------------------------------------
(* Properties *)

\* Applying `actions` in order from state s: every action, with the state it
\* leads to, is among successor() of the state before it, and the state
\* reached at the end satisfies goal_test.
RECURSIVE ValidPlan(_, _, _)
ValidPlan(ts, s, actions) ==
    IF Len(actions) = 0 THEN goal_test(ts, s)
    ELSE \E k \in 1..Len(successor(s)) :
            /\ successor(s)[k].action = Head(actions)
            /\ ValidPlan(ts, successor(s)[k].state, Tail(actions))

Uninformed == engine \in {"ids", "dls"}

\* The counts returned by the depth-limited calls made so far, in order.
CallCounts == [k \in 1..Len(hist.calls) |-> hist.calls[k].expanded]

\* C1: an action list returned by DepthLimitedDFS.search or by
\* IterativeDeepening.search leads, step by step through successor(), from
\* the start state to a state that satisfies goal_test.
C1_ReturnedPlanIsValid ==
    Uninformed =>
        /\ (dls_ret.returned /\ ~dls_ret.none
                => ValidPlan(tiles, start, dls_ret.actions))
        /\ (ret.returned /\ ~ret.none => ValidPlan(tiles, start, ret.actions))

C1_Witness ==
    /\ engine = "ids"
    /\ pc = "done"
    /\ ~ret.none
    /\ Len(ret.actions) = 3

\* C2: an action list returned by Astar.search (parent indices walked from
\* the goal node to the root, then reversed) leads, step by step through
\* successor(), from the start state to a state that satisfies goal_test.
C2_AstarPlanIsValid ==
    engine = "astar" /\ ret.returned /\ ~ret.none
        => ValidPlan(tiles, start, ret.actions)

C2_Witness ==
    /\ engine = "astar"
    /\ pc = "done"
    /\ ~ret.none
    /\ Len(ret.actions) = 3

\* C3: when a depth-limited call made by the iterative-deepening driver
\* returned a solution, the driver returns that solution (it does not report
\* None).
C3_FoundSolutionIsReturned ==
    engine = "ids" /\ pc = "done" /\ dls_ret.returned /\ ~dls_ret.none
        => ~ret.none /\ ret.actions = dls_ret.actions

\* C4: a solution returned by DepthLimitedDFS.search(state, limit) has at most
\* `limit` actions; no state deeper than `limit` is on the path (expanded),
\* and no stack entry is a child of a state deeper than `limit`.
C4_DepthBound ==
    Uninformed /\ limit >= 0 =>
        /\ (dls_ret.returned /\ ~dls_ret.none => Len(dls_ret.actions) <= limit)
        /\ Len(path) <= limit + 1
        /\ \A k \in 1..Len(states_to_expand) :
               states_to_expand[k].depth <= limit + 1

C4_Witness ==
    /\ engine = "dls"
    /\ pc = "done"
    /\ limit = 2
    /\ ~ret.none
    /\ Len(ret.actions) = limit
    /\ hist.discards > 0

\* C5: the cost returned by Astar.search with a solution is the number of
\* actions of the solution.
C5_CostIsNumberOfActions ==
    engine = "astar" /\ ret.returned /\ ~ret.none
        => ret.cost = Len(ret.actions)

\* C6: the count returned by the iterative-deepening driver is the sum of the
\* counts of all depth-limited calls it made.
C6_TotalIsSumOfCalls ==
    engine = "ids" /\ pc = "done" => ret.expanded = SumSeq(CallCounts)

\* C7: when the driver stops by the stagnation rule, no goal state is
\* reachable from the start state.
C7_StagnationMeansExhausted ==
    engine = "ids" /\ pc = "done" /\ hist.exit = "stagnation"
        => ~GoalReachable(tiles, start)

\* C8 (as stated): on an instance with no reachable goal the driver returns
\* None and its exit is the stagnation rule.
C8_UnsolvableStopsByStagnation ==
    engine = "ids" /\ pc = "done" /\ ~GoalReachable(tiles, start)
        => ret.none /\ hist.exit = "stagnation"

\* C8 (amended): on an instance with no reachable goal the driver returns None
\* with the count of the calls for limits 0..max_limit, and its exit is the
\* maximum-limit ceiling.
C8_UnsolvableStopsAtMaxLimit ==
    engine = "ids" /\ pc = "done" /\ ~GoalReachable(tiles, start)
        => /\ ret.none
           /\ hist.exit = "max_limit"
           /\ Len(hist.calls) = max_limit + 1
           /\ ret.expanded = SumSeq(CallCounts)

C8_Witness ==
    /\ engine = "ids"
    /\ pc = "done"
    /\ ~GoalReachable(tiles, start)
    /\ ret.returned
    /\ ret.expanded > 1

\* C9: Astar.search expands no state twice, and an iteration that pops an
\* entry whose state is in the visited set leaves the expansion count and
\* the recorded nodes as they are and pushes nothing.
C9_NoStateExpandedTwice ==
    /\ [](engine = "astar" =>
            /\ \A i, j \in 1..Len(hist.order) :
                   i # j => hist.order[i] # hist.order[j]
            /\ Len(hist.order) = num_expanded_states)
    /\ [][(/\ engine = "astar"
           /\ pc = "astar"
           /\ Len(states_to_expand) > 0
           /\ states_to_expand[1].state \in visited_states)
          => /\ num_expanded_states' = num_expanded_states
             /\ expanded_states' = expanded_states
             /\ visited_states' = visited_states
             /\ Len(states_to_expand') <= Len(states_to_expand)]_vars

C9_Witness ==
    /\ engine = "astar"
    /\ hist.discards > 0
    /\ num_expanded_states >= 3

\* C10: Astar.search returns None only with an empty frontier, no goal among
\* the expanded states and cost infinity; and a search ends by returning None
\* exactly when no goal state is reachable from the start state.
C10_NoneIffNoGoalReachable ==
    engine = "astar" /\ pc \in {"done", "raised"} =>
        /\ (ret.returned /\ ret.none =>
                /\ Len(states_to_expand) = 0
                /\ \A k \in 1..Len(hist.order) : ~goal_test(tiles, hist.order[k])
                /\ ret.cost = inf)
        /\ ((ret.returned /\ ret.none) <=> ~GoalReachable(tiles, start))

\* C11: for a start state that satisfies goal_test, Astar.search returns
\* ([], 0, 1); no successor was generated (nothing was ever pushed: the
\* frontier never holds more than the root entry and is empty at the end).
C11_GoalStartReturnsAtOnce ==
    engine = "astar" /\ goal_test(tiles, start) =>
        /\ Len(states_to_expand) <= 1
        /\ pc # "raised"
        /\ (pc = "done" =>
                /\ ret = Return(<<>>, 0, 1)
                /\ Len(states_to_expand) = 0
                /\ hist.order = <<start>>)

C11_Witness ==
    /\ engine = "astar"
    /\ shape = "FourDominoes"
    /\ goal_test(tiles, start)
    /\ start # Ident
    /\ pc = "done"
    /\ ret.returned

\* C12: Astar.search on a Problem whose successor returns (action, state)
\* pairs never ends in an exception.
C12_NoExceptionOnPairs ==
    engine = "astar" /\ shape \in {"FourDominoes", "Pairs"} => pc # "raised"

\* C13: a depth-limited search called with a negative limit does not return
\* a normal result.
C13_NegativeLimitDoesNotReturn ==
    engine = "dls" /\ limit < 0 => ~dls_ret.returned

\* C14: the cumulative count of the driver never decreases; and when the
\* driver returns None, no call before the last one repeated the count of
\* its predecessor, the calls were made for limits 0, 1, 2, .. and the exit
\* is the one its last call determines: stagnation exactly if the last count
\* repeats the one before, otherwise a ceiling (all limits 0..max_limit
\* tried, or the budget reached).
C14_HaltsAtFirstRepeatOrCeiling ==
    /\ [][engine = "ids" => total_expanded_states' >= total_expanded_states]_vars
    /\ [](engine = "ids" /\ pc = "done" /\ ret.none =>
            LET n == Len(hist.calls) IN
            /\ \A k \in 1..n : hist.calls[k].limit = k - 1
            /\ \A k \in 2..(n - 1) : CallCounts[k] # CallCounts[k - 1]
            /\ hist.exit \in {"stagnation", "max_limit", "budget"}
            /\ (hist.exit = "stagnation"
                    <=> (n >= 2 /\ CallCounts[n] = CallCounts[n - 1]))
            /\ (hist.exit = "max_limit" => n = max_limit + 1)
            /\ (hist.exit = "budget" => total_expanded_states >= limit_states))

C14_Witness ==
    /\ engine = "ids"
    /\ pc = "done"
    /\ ret.none
    /\ hist.exit = "max_limit"
    /\ Len(hist.calls) = max_limit + 1

Running == pc \in {"dfs", "ids_head", "ids_after", "astar"}

\* C15: every search call returns: a call that is no longer executing has
\* returned a result.
C15_EverySearchReturns == ~Running => pc = "done" /\ ret.returned

\* The states on the path from the root to the parent of an entry of depth d.
PathTo(d) == {path[k] : k \in 1..(IF d < Len(path) THEN d ELSE Len(path))}

\* C17: a popped entry (s, d) with d <= limit is discarded as a cycle exactly
\* if s is one of the first d states of the path (the states from the root to
\* the entry's parent).
C17_CycleOnlyOnCurrentPath ==
    Uninformed /\ pc = "dfs" /\ Len(states_to_expand) > 0 /\ Top.depth <= limit
        => (Top.state \in visited_states <=> Top.state \in PathTo(Top.depth))

\* The step accepts the popped entry (lines 60-67 run for it).
AcceptedPop ==
    Uninformed /\ pc = "dfs" /\ num_expanded_states' = num_expanded_states + 1

\* The entry e was generated by expanding state s (lines 72-74).
GeneratedFrom(e, s) ==
    \E k \in 1..Len(AllActions) :
        /\ successor(s)[k].state = e.state
        /\ successor(s)[k].action = e.action

\* C18: after every accepted pop of an entry at depth d the path holds d+1
\* states, the action list holds d+1 entries with the root's sentinel action
\* first, the visited set is the set of the path's states and no state is
\* repeated on the path, and the d-th state of the path (position d-1 counted
\* from zero) is a state whose expansion generates the entry.
C18_PathAfterAcceptedPop ==
    [][AcceptedPop =>
        /\ Len(path') = Top.depth + 1
        /\ Len(solution') = Top.depth + 1
        /\ solution'[1] = NoAction
        /\ path'[Top.depth + 1] = Top.state
        /\ solution'[Top.depth + 1] = Top.action
        /\ visited_states' = {path'[k] : k \in 1..Len(path')}
        /\ Cardinality(visited_states') = Len(path')
        /\ Top.depth > 0 => GeneratedFrom(Top, path'[Top.depth])]_vars

\* A pop was accepted at depth 2 after deeper states had been trimmed from the
\* path: more states were expanded than the path holds.
C18_Witness ==
    /\ Uninformed /\ pc = "dfs"
    /\ Len(path) = 3 /\ Len(solution) = 3
    /\ num_expanded_states > 3
    /\ Len(states_to_expand) > 0 /\ Top.depth = 3
    /\ visited_states = {path[k] : k \in 1..3}

\* The step records the popped node (lines 91-93) in Astar.search.
Recorded ==
    engine = "astar" /\ pc = "astar"
        /\ num_expanded_states' = num_expanded_states + 1

\* The frontier entries pushed by the step: those whose parent index is the
\* index of the node the step recorded.
PushedEntries ==
    {states_to_expand'[k] : k \in {j \in 1..Len(states_to_expand') :
                                     states_to_expand'[j].parent = num_expanded_states}}

\* C19: every entry pushed for a child carries the accumulated cost of the
\* popped parent entry plus 1, and priority equal to that accumulated cost
\* plus heuristicfunction(child).
C19_ChildCostIsParentCostPlusOne ==
    [][Recorded =>
        \A e \in PushedEntries :
            /\ e.g = PopItem.g + 1
            /\ e.f = e.g + heuristicfunction(e.state)]_vars

\* The state of the node recorded with expansion index i (counted from zero).
NodeState(i) == hist.order[i + 1]

\* The parent index p and action a lead to state s: s is the child that the
\* expansion of node p generates for a.
PushedBy(p, a, s) ==
    \E k \in 1..Len(AllActions) :
        /\ successor(NodeState(p))[k].action = a
        /\ successor(NodeState(p))[k].state = s

\* C20: the root is recorded with parent index -1; every other recorded
\* node, and every frontier entry for a child, has a parent index that is
\* >= 0, less than its own expansion index, and is the index of the node whose
\* expansion pushed it.
C20_ParentIndexIsEarlierPusher ==
    engine = "astar" =>
        /\ Len(hist.order) = Len(expanded_states)
        /\ Len(expanded_states) = num_expanded_states
        /\ \A i \in 1..Len(expanded_states) :
              LET p == expanded_states[i].parent
              IN  IF i = 1 THEN p = -1
                  ELSE /\ p >= 0 /\ p < i - 1
                       /\ PushedBy(p, expanded_states[i].action, NodeState(i - 1))
        /\ \A k \in 1..Len(states_to_expand) :
              LET e == states_to_expand[k]
              IN  IF num_expanded_states = 0 THEN e.parent = -1
                  ELSE /\ e.parent >= 0 /\ e.parent < num_expanded_states
                       /\ PushedBy(e.parent, e.action, e.state)

\* A search returned a plan of two actions: the goal node's parent is a
\* recorded node other than the root, whose own parent is the root.
C20_Witness ==
    /\ engine = "astar" /\ pc = "done" /\ ret.returned /\ ~ret.none
    /\ Len(ret.actions) = 2
    /\ expanded_states[Len(expanded_states)].parent > 0
    /\ expanded_states[expanded_states[Len(expanded_states)].parent + 1].parent = 0

\* The position of action a in the order in which successor() yields the
\* children of a state (0 for the root's sentinel action).
ActionIndex(a) ==
    IF a = NoAction THEN 0
    ELSE CHOOSE k \in 1..Len(AllActions) : AllActions[k] = a

\* Frontier entry a was put before frontier entry b: by an earlier expansion,
\* or earlier in the loop of lines 103-107 of the same expansion.
InsertedBefore(a, b) ==
    \/ a.parent < b.parent
    \/ a.parent = b.parent /\ ActionIndex(a.action) < ActionIndex(b.action)

\* The step takes an entry from the frontier (get() of line 86 returns).
Got ==
    /\ engine = "astar" /\ pc = "astar"
    /\ Len(states_to_expand) > 0 /\ ~PopRest.err

\* C21: when an entry is popped, no entry of the frontier with the same
\* priority f was inserted before it (FIFO among equal keys).
C21_EqualPriorityPopsFIFO ==
    [][Got =>
        \A k \in 1..Len(states_to_expand) :
            states_to_expand[k].f = PopItem.f
                => ~InsertedBefore(states_to_expand[k], PopItem)]_vars

\* The run from InitWide is, at its fourth loop head, in the state
\* InitWideAtBudget.
WideRunPassesInitWideAtBudget ==
    graph = WideGraph /\ pc = "ids_head" /\ ids_limit = 3 => InitWideAtBudget

\* C22: the driver's calls have the limits 0, 1, 2, ... in this order, none
\* above max_limit; a call is running only if the cumulative count was
\* below the budget when it started, and once the cumulative count has
\* reached the budget the driver is at the loop head or has returned.
C22_LimitsIncreaseByOneWithinBounds ==
    /\ WideRunPassesInitWideAtBudget
    /\ engine = "ids" =>
        /\ \A i \in 1..Len(hist.calls) :
              hist.calls[i].limit = i - 1 /\ hist.calls[i].limit <= max_limit
        /\ pc = "dfs" =>
              /\ limit = Len(hist.calls)
              /\ limit <= max_limit
              /\ total_expanded_states < limit_states
        /\ pc \in {"ids_head", "ids_after"} => ids_limit = Len(hist.calls)
              \/ (pc = "ids_after" /\ ids_limit = Len(hist.calls) - 1)
        /\ total_expanded_states >= limit_states => pc \in {"ids_head", "done"}
        /\ pc = "done" /\ total_expanded_states >= limit_states
              /\ Len(hist.calls) <= max_limit
              => hist.exit = "budget" /\ ret.none

\* The calls with limits 0, 1 and 2 expanded limit_states states or more
\* between them and the driver returned without making the call with limit 3.
C22_Witness ==
    /\ engine = "ids" /\ pc = "done"
    /\ hist.exit = "budget"
    /\ Len(hist.calls) = 3 /\ hist.calls[3].limit = 2
    /\ ids_limit = 3 /\ ids_limit <= max_limit
    /\ total_expanded_states >= limit_states
    /\ ret.none /\ ret.expanded = total_expanded_states

\* C23: the count of expansions, the size of the visited set and the number
\* of recorded nodes are equal at every iteration; no goal state stays in the
\* visited set while the loop runs (the goal test is applied to every state
\* popped and counted); a returned solution ends in a goal state that was
\* popped, recorded last and counted in the returned count.
C23_GoalTestAtExpansion ==
    engine = "astar" =>
        /\ num_expanded_states = Cardinality(visited_states)
        /\ num_expanded_states = Len(expanded_states)
        /\ visited_states = {hist.order[k] : k \in 1..Len(hist.order)}
        /\ pc = "astar" => \A s \in visited_states : ~goal_test(tiles, s)
        /\ pc = "done" /\ ~ret.none =>
              /\ num_expanded_states >= 1
              /\ goal_test(tiles, hist.order[Len(hist.order)])
              /\ ret.expanded = num_expanded_states

\* A goal state was generated as a child and waits in the frontier while the
\* search goes on: the goal test was not applied at generation time.
C23_Witness ==
    /\ engine = "astar" /\ pc = "astar"
    /\ num_expanded_states >= 1
    /\ \E k \in 2..Len(states_to_expand) :
          goal_test(tiles, states_to_expand[k].state)

\* The (top, right, bottom, left) values that a state shows at every cell.
Values(state) == [c \in 1..Len(state) |-> tiles[state[c]]]

\* No two states of the sequence show the same values at every cell.
NoStructuralRepeat(seq) ==
    \A i \in 1..Len(seq) : \A j \in 1..Len(seq) :
        i < j => Values(seq[i]) # Values(seq[j])

\* C24: neither engine expands a state whose tiles carry, at every cell, the
\* same values as a state it already holds as visited: the depth-first path
\* and the A* expansion order contain no two states of identical content.
C24_VisitedIsStructural ==
    /\ Uninformed /\ pc = "dfs" => NoStructuralRepeat(path)
    /\ engine = "astar" => NoStructuralRepeat(hist.order)

\* The states at most k actions away from the states of S.
RECURSIVE ReachWithin(_, _, _, _)
ReachWithin(sh, gr, S, k) ==
    IF k <= 0 THEN S
    ELSE ReachWithin(sh, gr,
            S \cup UNION {{self_successor(sh, gr, s)[a].state :
                               a \in 1..Len(self_successor(sh, gr, s))} :
                            s \in S}, k - 1)

\* Some goal state is at most k actions away from the start state.
GoalWithin(k) ==
    /\ k >= 0
    /\ \E s \in ReachWithin(shape, graph, {start}, k) :
          self_goal_test(shape, tiles, graph, s)

\* C25: a direct call DepthLimitedDFS.search(start, L) with L >= 0 that has
\* returned did not return None if some goal state is at most L actions away
\* from the start (a shortest path to it is cycle-free).
C25_CompleteWithinLimit ==
    engine = "dls" /\ pc = "done" /\ limit >= 0 /\ GoalWithin(limit)
        => ~ret.none

\* C26: a solution of k actions returned by IterativeDeepening.search is a
\* shortest one: no goal state is fewer than k actions away from the start.
C26_ReturnedSolutionIsShortest ==
    engine = "ids" /\ pc = "done" /\ ret.returned /\ ~ret.none
        => ~GoalWithin(Len(ret.actions) - 1)

====
